---- MODULE Spec2Model ----
(***************************************************************************)
(* rustling-ontology: the Parser facade (src/src/lib.rs), the language      *)
(* registry (src/grammar/src/lib.rs) and the candidate tagging / resolution *)
(* pipeline the facade drives.                                              *)
(*                                                                          *)
(* The facade and Lang::from_str are translated from the source.  The      *)
(* CandidateTagger (mod tagger), the resolver and the raw rustling parser   *)
(* are modelled from the design document (sections 4.2, 4.3, 4.4 and 6).    *)
(***************************************************************************)
EXTENDS Integers, Sequences, FiniteSets, TLC

(* ------------------------------ bounds -------------------------------- *)
\* Byte positions of the non-empty input text: 0..MaxPos.
MaxPos == 2
\* Largest number of nodes in a parse forest.
MaxCands == 3
\* Longest language name handed to Lang::from_str.
MaxNameLen == 3
\* Number of calls made on one Parser in the specification of several calls,
\* the largest forest there, and the longest list of examples to analyse.
NumCalls == 2
MaxCallsCands == 2
MaxExamples == 1

(* ------------------------- language registry -------------------------- *)
\* Characters of a language name.  "sharp_s" stands for U+00DF, whose
\* uppercase form is the two characters "SS".
Chars == {"e", "E", "n", "N", "sharp_s"}

\* char::to_uppercase, as a string (Unicode upper-casing can lengthen).
UpperChar(c) ==
  CASE c = "e" -> <<"E">>
    [] c = "n" -> <<"N">>
    [] c = "sharp_s" -> <<"S", "S">>
    [] OTHER -> <<c>>

RECURSIVE to_uppercase(_)
to_uppercase(s) ==
  IF s = <<>> THEN <<>> ELSE UpperChar(Head(s)) \o to_uppercase(Tail(s))

\* The languages lang_enum! registers, by stringify!($lang).
LangNames == {<<"E", "N">>}

Ok(v) == [ok |-> TRUE, val |-> v]
Err(e) == [ok |-> FALSE, err |-> e]

\* A variant of from_str that compares the name as given (case-sensitive).
from_str_case_sensitive(it) ==
  IF it \in LangNames THEN Ok(it) ELSE Err(<<"Unknown language ", it>>)

\* Lang::from_str
from_str(it) ==
  IF to_uppercase(it) \in LangNames
    THEN Ok(to_uppercase(it))
    ELSE Err(<<"Unknown language ", it>>)

RECURSIVE SeqsUpTo(_, _)
SeqsUpTo(S, n) ==
  IF n = 0 THEN {<<>>}
  ELSE LET shorter == SeqsUpTo(S, n - 1)
       IN shorter \cup {Append(s, x) : s \in shorter, x \in S}

Names == SeqsUpTo(Chars, MaxNameLen)

(* ------------------------------ data model ---------------------------- *)
\* OutputKind::all(): the fixed canonical order of all supported kinds.
OutputKind_all == <<"Number", "Temporal">>

OutputKinds == {OutputKind_all[i] : i \in DOMAIN OutputKind_all}

\* Statistical scores (log-probabilities) and structural shapes of a node.
Probalogs == {-2, -1}
Heights == {1, 2}
NumNodes == {1, 2}
\* Intermediate values; 0 is a value no context can resolve.
Values == {0, 1}
\* Reference instants carried by a ResolverContext.
Contexts == {0, 1}

\* Non-empty half-open byte ranges within the text's bounds.
Ranges == {r \in (0..MaxPos) \X (0..MaxPos) : r[1] < r[2]}

\* A scored node of the parse forest (ParsedNode + probalog).
ParseNodes ==
  [byte_range : Ranges, dim : OutputKinds, probalog : Probalogs,
   parsing_tree_height : Heights, parsing_tree_num_nodes : NumNodes,
   value : Values]

RECURSIVE ForestsOver(_, _)
ForestsOver(C, n) ==
  IF n = 0 THEN {{}}
  ELSE LET smaller == ForestsOver(C, n - 1)
       IN smaller \cup {f \cup {c} : f \in smaller, c \in C}

None == <<>>
Some(v) == <<v>>

\* Range::is_disjoint on half-open ranges.
is_disjoint(a, b) == a[2] <= b[1] \/ b[2] <= a[1]

Intersect(a, b) == ~is_disjoint(a, b)

\* a lies fully within b.
Within(a, b) == b[1] <= a[1] /\ a[2] <= b[2]

(* --------------------------- candidate tagger -------------------------- *)
\* 1-based position of kind k in the order, 0 when the order omits it.
Position(order, k) ==
  IF \E i \in DOMAIN order : order[i] = k
    THEN CHOOSE i \in DOMAIN order :
           order[i] = k /\ \A j \in DOMAIN order : order[j] = k => i <= j
    ELSE 0

\* Section 4.2 step 1: the nodes whose kind the order lists.
Eligible(tagger, forest) ==
  {n \in forest : Position(tagger.output_kind_filter, n.dim) > 0}

\* Variant: the weight is the score alone.
Heavier_score_only(a, b) == a.probalog > b.probalog

\* Section 4.2 step 3: a is strictly heavier than b: higher score, then lower
\* tree height, then fewer nodes.
Heavier(a, b) ==
  \/ a.probalog > b.probalog
  \/ /\ a.probalog = b.probalog
     /\ a.parsing_tree_height < b.parsing_tree_height
  \/ /\ a.probalog = b.probalog
     /\ a.parsing_tree_height = b.parsing_tree_height
     /\ a.parsing_tree_num_nodes < b.parsing_tree_num_nodes

SameWeight(a, b) == ~Heavier(a, b) /\ ~Heavier(b, a)

\* The forest's own order of its nodes, which settles the remaining ties.
ForestBefore(a, b) ==
  LET ka == <<a.byte_range[1], a.byte_range[2], a.value, a.probalog,
              a.parsing_tree_height, a.parsing_tree_num_nodes>>
      kb == <<b.byte_range[1], b.byte_range[2], b.value, b.probalog,
              b.parsing_tree_height, b.parsing_tree_num_nodes>>
  IN \E i \in DOMAIN ka : ka[i] < kb[i] /\ \A j \in 1..(i - 1) : ka[j] = kb[j]

\* Section 4.2 steps 2-3: a is processed before b.
Before(tagger, a, b) ==
  LET pa == Position(tagger.output_kind_filter, a.dim)
      pb == Position(tagger.output_kind_filter, b.dim)
  IN \/ pa < pb
     \/ pa = pb /\ Heavier(a, b)
     \/ pa = pb /\ SameWeight(a, b) /\ ForestBefore(a, b)

First(tagger, S) == CHOOSE x \in S : \A y \in S \ {x} : Before(tagger, x, y)

\* Section 4.2 step 4: greedy selection in processing order.
RECURSIVE Greedy(_, _, _)
Greedy(tagger, todo, committed) ==
  IF todo = {} THEN committed
  ELSE LET x == First(tagger, todo)
           free == \A c \in committed : is_disjoint(c.byte_range, x.byte_range)
       IN Greedy(tagger, todo \ {x},
                 IF free THEN committed \cup {x} ELSE committed)

Committed(tagger, forest) == Greedy(tagger, Eligible(tagger, forest), {})

\* Variant: exhaustive mode retains every node of a listed kind.
Retained_every_eligible(tagger, forest, committed) ==
  IF tagger.resolve_all_candidates
    THEN {n \in forest : Position(tagger.output_kind_filter, n.dim) > 0}
    ELSE committed

\* Section 4.2 steps 5-6: what the tagger retains, given what it committed.
Retained(tagger, forest, committed) ==
  LET pos(n) == Position(tagger.output_kind_filter, n.dim)
  IN IF tagger.resolve_all_candidates
       THEN {n \in Eligible(tagger, forest) :
               \A c \in committed :
                 pos(c) < pos(n) => is_disjoint(c.byte_range, n.byte_range)}
       ELSE committed

RECURSIVE PriorityList(_, _)
PriorityList(tagger, S) ==
  IF S = {} THEN <<>>
  ELSE LET x == First(tagger, S)
       IN <<x>> \o PriorityList(tagger, S \ {x})

\* CandidateTagger::tag: the pruned, priority-ordered candidate list; every
\* retained alternative other than a committed one is marked latent.
tag(tagger, forest) ==
  LET committed == Committed(tagger, forest)
      list == PriorityList(tagger, Retained(tagger, forest, committed))
  IN [i \in DOMAIN list |-> [node |-> list[i], latent |-> list[i] \notin committed]]

(* ------------------------------- resolver ------------------------------ *)
\* ResolverContext::resolve: the typed Output of a node's intermediate value,
\* or None.  A Temporal value is grounded at the context's reference instant;
\* the other kinds are coerced as they are.
resolve(context, node) ==
  IF node.value = 0 THEN None
  ELSE Some([kind |-> node.dim,
             v |-> IF node.dim = "Temporal"
                     THEN node.value + context ELSE node.value])

(* ----------------------------- raw parser ------------------------------ *)
\* What the rule matcher and the scorer yield on a text they cannot process.
MatchError == "MatchError"

\* The ParserMatch of a tagged candidate, its value resolved.
MatchOf(tagger, c) ==
  [byte_range |-> c.node.byte_range,
   char_range |-> c.node.byte_range,
   parsing_tree_height |-> c.node.parsing_tree_height,
   parsing_tree_num_nodes |-> c.node.parsing_tree_num_nodes,
   value |-> resolve(tagger.context, c.node),
   probalog |-> c.node.probalog,
   latent |-> c.latent]

\* Stable insertion by ascending span start.
RECURSIVE InsertByStart(_, _)
InsertByStart(m, sorted) ==
  IF sorted = <<>> THEN <<m>>
  ELSE IF m.byte_range[1] < Head(sorted).byte_range[1]
         THEN <<m>> \o sorted
         ELSE <<Head(sorted)>> \o InsertByStart(m, Tail(sorted))

RECURSIVE SortByStart(_)
SortByStart(ms) ==
  IF ms = <<>> THEN <<>>
  ELSE InsertByStart(ms[Len(ms)], SortByStart(SubSeq(ms, 1, Len(ms) - 1)))

\* rustling::Parser::candidates: the tagged candidates of the forest, or
\* the rule matcher's error.
RawParser_candidates(forest, tagger) ==
  IF forest.ok THEN Ok(tag(tagger, forest.val)) ELSE Err(forest.err)

\* rustling::Parser::parse after its call of candidates (result cands):
\* resolve each tagged candidate, order by ascending span start.
RawParser_parse(cands, tagger) ==
  IF ~cands.ok THEN Err(cands.err)
  ELSE Ok(SortByStart([i \in DOMAIN cands.val |-> MatchOf(tagger, cands.val[i])]))

RECURSIVE AnalyseAll(_, _, _)
AnalyseAll(rules, examples, tagger) ==
  IF examples = <<>> THEN <<>>
  ELSE <<RawParser_parse(RawParser_candidates(rules[Head(examples)], tagger),
                         tagger).val>>
       \o AnalyseAll(rules, Tail(examples), tagger)

\* rustling::Parser::analyse: one parse pipeline run per example.
RawParser_analyse(rules, examples, tagger) ==
  IF \E i \in DOMAIN examples : ~rules[examples[i]].ok
    THEN Err(MatchError)
    ELSE Ok(AnalyseAll(rules, examples, tagger))

(* ---------------------------- parser facade ---------------------------- *)
\* Variant: the tagger is built in exhaustive mode.
NewTagger_resolve_all(order, context) ==
  [output_kind_filter |-> order,
   context |-> context,
   resolve_all_candidates |-> TRUE]

\* Variant: the tagger is handed OutputKind::all() instead of the order.
NewTagger_all_kinds(order, context) ==
  [output_kind_filter |-> OutputKind_all,
   context |-> context,
   resolve_all_candidates |-> FALSE]

\* The CandidateTagger parse_with_kind_order and analyse_with_kind_order build.
NewTagger(order, context) ==
  [output_kind_filter |-> order,
   context |-> context,
   resolve_all_candidates |-> FALSE]

\* A CandidateTagger a caller builds from its public fields.
CandidateTagger(order, context, all) ==
  [output_kind_filter |-> order,
   context |-> context,
   resolve_all_candidates |-> all]

\* The closure of filter_map: Some(ParserMatch) for a match with a value.
Unwrap(m) ==
  IF m.value # None
    THEN Some([byte_range |-> m.byte_range,
               char_range |-> m.char_range,
               parsing_tree_height |-> m.parsing_tree_height,
               parsing_tree_num_nodes |-> m.parsing_tree_num_nodes,
               value |-> m.value[1],
               probalog |-> m.probalog,
               latent |-> m.latent])
    ELSE None

\* Variant: the iteration stops at the first match without a value.
RECURSIVE filter_map_until_none(_)
filter_map_until_none(ms) ==
  IF ms = <<>> \/ Unwrap(Head(ms)) = None THEN <<>>
  ELSE Unwrap(Head(ms)) \o filter_map_until_none(Tail(ms))

\* Variant: the matches are collected back to front.
RECURSIVE filter_map_reversed(_)
filter_map_reversed(ms) ==
  IF ms = <<>> THEN <<>> ELSE filter_map_reversed(Tail(ms)) \o Unwrap(Head(ms))

\* .into_iter().filter_map(..).collect()
RECURSIVE filter_map(_)
filter_map(ms) ==
  IF ms = <<>> THEN <<>> ELSE Unwrap(Head(ms)) \o filter_map(Tail(ms))

(* -------------------------------- state -------------------------------- *)
\* lookup: the last Lang::from_str call, as [name, result], or None.
\* rules:  the Parser (self.0: rule set and trained model), as the scored
\*         forest it yields on each text; no operation assigns it.
\* calls:  each call on the Parser: not yet made, in flight, or returned.
VARIABLES lookup, rules, calls

vars == <<lookup, rules, calls>>

\* The empty string and one non-empty text of MaxPos bytes.
Texts == {"", "text"}

\* Kind orders: the sequences of distinct kinds.
Orders ==
  {o \in SeqsUpTo(OutputKinds, Len(OutputKind_all)) :
     \A i, j \in DOMAIN o : o[i] = o[j] => i = j}

Reverse(o) == [i \in DOMAIN o |-> o[Len(o) + 1 - i]]

\* Slices of the nodes a forest is drawn from: nodes that differ in score
\* only, nodes that differ in value only, and nodes of every weight.
ScoreNodes ==
  {n \in ParseNodes : /\ n.value = 1
                      /\ n.parsing_tree_height = 1
                      /\ n.parsing_tree_num_nodes = 1}
ValueNodes ==
  {n \in ParseNodes : /\ n.probalog = -1
                      /\ n.parsing_tree_height = 1
                      /\ n.parsing_tree_num_nodes = 1}
WeightNodes == {n \in ParseNodes : n.value = 1}

\* Inputs of the single-call specifications.
TagTexts == {"text"}
TagContexts == {0}
TagModes == {TRUE}

\* Inputs of the specification of several calls.
CallsOrders == {OutputKind_all, Reverse(OutputKind_all)}
ExampleLists == SeqsUpTo(Texts, MaxExamples)

Idle ==
  [pc |-> "idle", api |-> "", input |-> "", context |-> 0, order |-> <<>>,
   all |-> FALSE, tagged |-> <<>>, raw |-> <<>>, out |-> None]

\* build_parser(Lang::EN) has returned a Parser; the empty text has no nodes.
InitParser(forests) ==
  rules \in {[t \in Texts |-> IF t = "" THEN Ok({}) ELSE r] :
               r \in {Ok(f) : f \in forests} \cup {Err(MatchError)}}

Init ==
  /\ lookup = None
  /\ InitParser(ForestsOver(ScoreNodes, MaxCands)
                  \cup ForestsOver(ValueNodes, MaxCands))
  /\ calls = [t \in {1} |-> Idle]

InitWeight ==
  /\ lookup = None
  /\ InitParser(ForestsOver(WeightNodes, MaxCands))
  /\ calls = [t \in {1} |-> Idle]

InitCalls ==
  /\ lookup = None
  /\ InitParser(ForestsOver(ValueNodes, MaxCallsCands))
  /\ calls = [t \in 1..NumCalls |-> Idle]

InitLang ==
  /\ lookup = None
  /\ rules = [t \in Texts |-> Ok({})]
  /\ calls = [t \in {1} |-> Idle]

CanCall(t) == calls[t].pc = "idle"

(* ------------------------------- actions ------------------------------- *)
\* Lang::from_str(name)
FromStr(name) ==
  /\ lookup' = Some([name |-> name, result |-> from_str(name)])
  /\ UNCHANGED <<rules, calls>>

\* parse_with_kind_order up to the `?`: the tagger is built, self.0.parse
\* runs; its error returns at once, its matches are held for filter_map.
Invoke(t, api, input, context, order) ==
  /\ CanCall(t)
  /\ LET tagger == NewTagger(order, context)
         cands == RawParser_candidates(rules[input], tagger)
         r == RawParser_parse(cands, tagger)
         c == [Idle EXCEPT !.api = api, !.input = input,
                           !.context = context, !.order = order]
     IN calls' = [calls EXCEPT ![t] =
          IF r.ok
            THEN [c EXCEPT !.pc = "tagged", !.raw = r.val, !.tagged = cands.val]
            ELSE [c EXCEPT !.pc = "done", !.out = Some(Err(r.err))]]
  /\ UNCHANGED <<lookup, rules>>

\* Parser::parse_with_kind_order(input, context, order)
ParseWithKindOrder(t, input, context, order) ==
  Invoke(t, "parse_with_kind_order", input, context, order)

\* Variant: parse hands over the canonical order without its last kind.
Parse_short_order(t, input, context) ==
  Invoke(t, "parse", input, context,
         SubSeq(OutputKind_all, 1, Len(OutputKind_all) - 1))

\* Parser::parse(input, context)
Parse(t, input, context) ==
  Invoke(t, "parse", input, context, OutputKind_all)

\* Variant: the matches are collected into a buffer the Parser keeps and
\* never clears, so a call also returns the matches of the calls before it.
Collect_shared_buffer(t) ==
  /\ calls[t].pc = "tagged"
  /\ LET RECURSIVE Earlier(_)
         Earlier(S) ==
           IF S = {} THEN <<>>
           ELSE LET u == CHOOSE x \in S : \A y \in S : x <= y
                IN (IF calls[u].pc = "done" /\ calls[u].out[1].ok
                        /\ calls[u].api \in {"parse", "parse_with_kind_order"}
                      THEN calls[u].out[1].val ELSE <<>>)
                   \o Earlier(S \ {u})
     IN calls' = [calls EXCEPT
          ![t].pc = "done",
          ![t].out = Some(Ok(Earlier(DOMAIN calls \ {t})
                             \o filter_map(calls[t].raw)))]
  /\ UNCHANGED <<lookup, rules>>

\* The rest of parse_with_kind_order: filter_map, collect, Ok.
Collect(t) ==
  /\ calls[t].pc = "tagged"
  /\ calls' = [calls EXCEPT ![t].pc = "done",
                            ![t].out = Some(Ok(filter_map(calls[t].raw)))]
  /\ UNCHANGED <<lookup, rules>>

\* The body of analyse_with_kind_order.
InvokeAnalyse(t, api, examples, context, order) ==
  /\ CanCall(t)
  /\ LET tagger == NewTagger(order, context)
     IN calls' = [calls EXCEPT ![t] =
          [Idle EXCEPT !.pc = "done", !.api = api, !.input = examples,
                       !.context = context, !.order = order,
                       !.out = Some(RawParser_analyse(rules, examples, tagger))]]
  /\ UNCHANGED <<lookup, rules>>

\* Parser::analyse_with_kind_order(examples, context, order)
AnalyseWithKindOrder(t, examples, context, order) ==
  InvokeAnalyse(t, "analyse_with_kind_order", examples, context, order)

\* Parser::analyse(examples, context)
Analyse(t, examples, context) ==
  InvokeAnalyse(t, "analyse", examples, context, OutputKind_all)

\* RawParser::candidates(input, &tagger) with a tagger the caller built.
Candidates(t, input, context, order, all) ==
  /\ CanCall(t)
  /\ LET tagger == CandidateTagger(order, context, all)
         r == RawParser_candidates(rules[input], tagger)
         c == [Idle EXCEPT !.pc = "done", !.api = "candidates",
                           !.input = input, !.context = context,
                           !.order = order, !.all = all]
     IN calls' = [calls EXCEPT ![t] =
          IF r.ok
            THEN [c EXCEPT !.tagged = r.val, !.out = Some(Ok(r.val))]
            ELSE [c EXCEPT !.out = Some(Err(r.err))]]
  /\ UNCHANGED <<lookup, rules>>

\* One call: the tagging and resolution pipeline.
Next ==
  \/ \E t \in DOMAIN calls, input \in TagTexts, context \in TagContexts,
        order \in Orders :
       ParseWithKindOrder(t, input, context, order)
  \/ \E t \in DOMAIN calls : Collect(t)
  \/ \E t \in DOMAIN calls, input \in TagTexts, context \in TagContexts,
        order \in Orders, all \in TagModes :
       Candidates(t, input, context, order, all)

Spec == Init /\ [][Next]_vars

\* The same call on the forests of every weight.
SpecWeight == InitWeight /\ [][Next]_vars

\* Several calls on one Parser, interleaved.
NextCalls ==
  \/ \E t \in DOMAIN calls, input \in Texts, context \in Contexts,
        order \in CallsOrders :
       ParseWithKindOrder(t, input, context, order)
  \/ \E t \in DOMAIN calls, input \in Texts, context \in Contexts :
       Parse(t, input, context)
  \/ \E t \in DOMAIN calls : Collect(t)
  \/ \E t \in DOMAIN calls, examples \in ExampleLists, context \in Contexts,
        order \in CallsOrders :
       AnalyseWithKindOrder(t, examples, context, order)
  \/ \E t \in DOMAIN calls, examples \in ExampleLists, context \in Contexts :
       Analyse(t, examples, context)

SpecCalls == InitCalls /\ [][NextCalls]_vars

NextLang == \E name \in Names : FromStr(name)

SpecLang == InitLang /\ [][NextLang]_vars

(* ------------------------------- properties ---------------------------- *)
CallIds == DOMAIN calls

Done(t) == calls[t].pc = "done"

\* A returned parse / parse_with_kind_order call whose rule matching succeeded.
Parsed(t) ==
  /\ Done(t)
  /\ calls[t].api \in {"parse", "parse_with_kind_order"}
  /\ rules[calls[t].input].ok

OutOk(t) == calls[t].out # None /\ calls[t].out[1].ok

OutList(t) == calls[t].out[1].val

Forest(t) == rules[calls[t].input].val

\* The nodes the tagger kept (its output) and those it committed.
KeptNodes(t) == {calls[t].tagged[i].node : i \in DOMAIN calls[t].tagged}

CommittedNodes(t) ==
  {calls[t].tagged[i].node :
     i \in {j \in DOMAIN calls[t].tagged : ~calls[t].tagged[j].latent}}

Listed(order) == {order[i] : i \in DOMAIN order}

\* Position in the order, a kind the order omits ranking after every listed one.
Rank(order, k) ==
  IF k \in Listed(order)
    THEN CHOOSE i \in DOMAIN order :
           order[i] = k /\ \A j \in 1..(i - 1) : order[j] # k
    ELSE Len(order) + 1

\* C1: the list one parse / parse_with_kind_order call returns holds no two
\* Matches whose byte ranges intersect.
C1_NonOverlap ==
  \A t \in CallIds :
    Parsed(t) /\ OutOk(t) =>
      \A i, j \in DOMAIN OutList(t) :
        i # j => is_disjoint(OutList(t)[i].byte_range, OutList(t)[j].byte_range)

\* C1 witness: a call returned two Matches from a forest of three nodes, one
\* of which intersects both.
C1_Witness ==
  \E t \in CallIds :
    /\ Parsed(t) /\ OutOk(t) /\ Len(OutList(t)) = 2
    /\ \E n \in Forest(t) :
         \A i \in DOMAIN OutList(t) :
           /\ Intersect(n.byte_range, OutList(t)[i].byte_range)
           /\ n.byte_range # OutList(t)[i].byte_range

\* C2 as stated: whenever two nodes of different kinds intersect and one is
\* kept while the other is rejected, the kept one's kind is no later in the
\* requested order than the rejected one's.
C2_Original ==
  \A t \in CallIds :
    Parsed(t) =>
      \A a \in KeptNodes(t), b \in Forest(t) \ KeptNodes(t) :
        a.dim # b.dim /\ Intersect(a.byte_range, b.byte_range) =>
          Rank(calls[t].order, a.dim) <= Rank(calls[t].order, b.dim)

\* C2 amended: whenever two nodes of different kinds intersect and one is kept
\* while the other is rejected, the kept one's kind is no later in the
\* requested order than the rejected one's, or the rejected node also
\* intersects another kept node whose kind is no later than its own.
C2_PriorityRespect ==
  \A t \in CallIds :
    Parsed(t) =>
      \A a \in KeptNodes(t), b \in Forest(t) \ KeptNodes(t) :
        a.dim # b.dim /\ Intersect(a.byte_range, b.byte_range) =>
          \/ Rank(calls[t].order, a.dim) <= Rank(calls[t].order, b.dim)
          \/ \E c \in KeptNodes(t) :
               /\ Intersect(c.byte_range, b.byte_range)
               /\ Rank(calls[t].order, c.dim) <= Rank(calls[t].order, b.dim)

\* C2 witness: a kept node intersects a rejected node of a kind earlier in the
\* order, which another kept node blocks.
C2_Witness ==
  \E t \in CallIds :
    /\ Parsed(t)
    /\ \E a \in KeptNodes(t), b \in Forest(t) \ KeptNodes(t) :
         /\ a.dim # b.dim
         /\ Intersect(a.byte_range, b.byte_range)
         /\ Rank(calls[t].order, a.dim) > Rank(calls[t].order, b.dim)
         /\ \E c \in KeptNodes(t) : Intersect(c.byte_range, b.byte_range)
                                    /\ c.dim = b.dim

\* C3: parse_with_kind_order never returns a Match of a kind its order omits.
C3_OnlyListedKinds ==
  \A t \in CallIds :
    Parsed(t) /\ OutOk(t) =>
      \A i \in DOMAIN OutList(t) :
        OutList(t)[i].value.kind \in Listed(calls[t].order)

\* C3 witness: a call whose order omits the kind of a node of the forest
\* returned a Match of the other kind.
C3_Witness ==
  \E t \in CallIds :
    /\ Parsed(t) /\ OutOk(t) /\ OutList(t) # <<>>
    /\ \E n \in Forest(t) : n.dim \notin Listed(calls[t].order)

\* C4: parse returns what parse_with_kind_order returns for the same text and
\* context with the canonical order of all kinds (Matches or error), and
\* analyse returns what analyse_with_kind_order returns with all kinds.
C4_ParseIsAllKinds ==
  \A t, u \in CallIds :
    Done(t) /\ Done(u) /\ calls[t].context = calls[u].context =>
      /\ ( /\ calls[t].api = "parse"
           /\ calls[u].api = "parse_with_kind_order"
           /\ calls[u].order = OutputKind_all
           /\ calls[t].input = calls[u].input ) => calls[t].out = calls[u].out
      /\ ( /\ calls[t].api = "analyse"
           /\ calls[u].api = "analyse_with_kind_order"
           /\ calls[u].order = OutputKind_all
           /\ calls[t].input = calls[u].input ) => calls[t].out = calls[u].out

\* C4 witness: parse and parse_with_kind_order with all kinds both returned a
\* Match of the last kind of the canonical order for the same text and context.
C4_Witness ==
  \E t, u \in CallIds :
    /\ Done(t) /\ Done(u)
    /\ calls[t].api = "parse"
    /\ calls[u].api = "parse_with_kind_order"
    /\ calls[u].order = OutputKind_all
    /\ calls[t].context = calls[u].context
    /\ calls[t].input = calls[u].input
    /\ OutOk(t) /\ OutOk(u)
    /\ \E i \in DOMAIN OutList(t) :
         OutList(t)[i].value.kind = OutputKind_all[Len(OutputKind_all)]

\* The casings of a registered name, letter by letter.
CaseVariants(c) ==
  CASE c = "E" -> {"e", "E"}
    [] c = "N" -> {"n", "N"}
    [] OTHER -> {c}

IsCasingOf(name, registered) ==
  /\ Len(name) = Len(registered)
  /\ \A i \in DOMAIN name : name[i] \in CaseVariants(registered[i])

\* C5: every casing of a registered identifier yields that language, and every
\* other name yields the error value "Unknown language <name>".
C5_CaseInsensitiveLookup ==
  lookup # None =>
    LET name == lookup[1].name
        result == lookup[1].result
    IN /\ \A l \in LangNames : IsCasingOf(name, l) => result = Ok(l)
       /\ (\A l \in LangNames : ~IsCasingOf(name, l)) =>
            result = Err(<<"Unknown language ", name>>)

\* C5 witness: a mixed-case name was looked up and yielded the language.
C5_Witness ==
  /\ lookup # None
  /\ lookup[1].name = <<"E", "n">>
  /\ lookup[1].result.ok

\* C6: a surviving candidate without a resolved value is omitted from the
\* returned list, every surviving candidate with a value is returned, and the
\* call succeeds.
C6_PerCandidateFailure ==
  \A t \in CallIds :
    Parsed(t) =>
      /\ OutOk(t)
      /\ \A i \in DOMAIN calls[t].raw :
           LET m == calls[t].raw[i]
               same == {j \in DOMAIN OutList(t) :
                          OutList(t)[j].byte_range = m.byte_range}
           IN IF m.value = None
                THEN same = {}
                ELSE /\ Cardinality(same) = 1
                     /\ \A j \in same : OutList(t)[j].value = m.value[1]
      /\ Len(OutList(t)) <= Len(calls[t].raw)

\* C6 witness: a call returned one Match although another surviving candidate
\* of it did not resolve.
C6_Witness ==
  \E t \in CallIds :
    /\ Parsed(t) /\ OutOk(t)
    /\ Len(calls[t].raw) = 2
    /\ calls[t].raw[1].value = None
    /\ Len(OutList(t)) = 1

Tagged(t) ==
  /\ calls[t].pc \in {"tagged", "done"}
  /\ calls[t].api \in {"parse", "parse_with_kind_order", "candidates"}
  /\ rules[calls[t].input].ok

\* C9: a node whose span lies within the span of a committed node of a
\* strictly higher-priority kind is dropped, in best-only and exhaustive mode.
C9_ContainedDropped ==
  \A t \in CallIds :
    Tagged(t) =>
      \A n \in Forest(t), c \in CommittedNodes(t) :
        ( /\ Rank(calls[t].order, c.dim) < Rank(calls[t].order, n.dim)
          /\ Within(n.byte_range, c.byte_range) ) => n \notin KeptNodes(t)

\* C9 witness: an exhaustive call kept a latent alternative and dropped a node
\* of a listed kind embedded in a committed higher-priority node.
C9_Witness ==
  \E t \in CallIds :
    /\ Tagged(t) /\ calls[t].all
    /\ KeptNodes(t) # CommittedNodes(t)
    /\ \E n \in Forest(t) \ KeptNodes(t), c \in CommittedNodes(t) :
         /\ n.dim \in Listed(calls[t].order)
         /\ Rank(calls[t].order, c.dim) < Rank(calls[t].order, n.dim)
         /\ Within(n.byte_range, c.byte_range)

\* The weight order of section 4.2 step 3, stated on its own: score, then
\* lower tree height, then fewer nodes.
StrictlyBetter(a, b) ==
  LET wa == <<-a.probalog, a.parsing_tree_height, a.parsing_tree_num_nodes>>
      wb == <<-b.probalog, b.parsing_tree_height, b.parsing_tree_num_nodes>>
  IN \E i \in 1..3 : wa[i] < wb[i] /\ \A j \in 1..(i - 1) : wa[j] = wb[j]

\* No committed node of a strictly higher-priority kind intersects n.
Unblocked(t, n) ==
  \A c \in CommittedNodes(t) :
    Rank(calls[t].order, c.dim) < Rank(calls[t].order, n.dim) =>
      is_disjoint(c.byte_range, n.byte_range)

\* C10 as stated: whenever two same-kind nodes intersect, neither blocked by a
\* higher-priority kind, the rejected one is never strictly better than the
\* kept one.
C10_Original ==
  \A t \in CallIds :
    Parsed(t) =>
      \A a \in KeptNodes(t), b \in Forest(t) \ KeptNodes(t) :
        ( /\ a.dim = b.dim /\ b.dim \in Listed(calls[t].order)
          /\ Intersect(a.byte_range, b.byte_range)
          /\ Unblocked(t, a) /\ Unblocked(t, b) ) => ~StrictlyBetter(b, a)

\* C10 amended: whenever two same-kind nodes intersect, neither blocked by a
\* higher-priority kind, the rejected one is not strictly better than the kept
\* one, or it also intersects another kept node of that kind than which it is
\* not strictly better.
C10_GreedyByWeight ==
  \A t \in CallIds :
    Parsed(t) =>
      \A a \in KeptNodes(t), b \in Forest(t) \ KeptNodes(t) :
        ( /\ a.dim = b.dim /\ b.dim \in Listed(calls[t].order)
          /\ Intersect(a.byte_range, b.byte_range)
          /\ Unblocked(t, a) /\ Unblocked(t, b) ) =>
          \/ ~StrictlyBetter(b, a)
          \/ \E c \in KeptNodes(t) :
               /\ c.dim = b.dim
               /\ Intersect(c.byte_range, b.byte_range)
               /\ ~StrictlyBetter(b, c)

\* C10 witness: a rejected node lost to a kept node of its kind that ties with
\* it on score and height and has fewer nodes.
C10_Witness ==
  \E t \in CallIds :
    /\ Parsed(t)
    /\ \E a \in KeptNodes(t), b \in Forest(t) \ KeptNodes(t) :
         /\ a.dim = b.dim
         /\ Intersect(a.byte_range, b.byte_range)
         /\ Unblocked(t, b)
         /\ a.probalog = b.probalog
         /\ a.parsing_tree_height = b.parsing_tree_height
         /\ a.parsing_tree_num_nodes < b.parsing_tree_num_nodes
         /\ ForestBefore(b, a)

====
